---- MODULE Spec2Model ----
(***************************************************************************)
(* Model of src/app.py (monthly uptime reports from CloudWatch             *)
(* Synthetics): percentile, compute_summary, downsample_series,            *)
(* get_metric_data_paginated, and handler with the year rollup             *)
(* (load_year_rows, write_rows_csv).                                       *)
(*                                                                         *)
(* Conventions                                                             *)
(*  - A timestamp is the number of minutes since the start of the          *)
(*    reporting window; date(k) is k \div MinutesPerDay.                   *)
(*  - A Python float is a rational <<num, den>> in lowest terms with      *)
(*    den > 0.  Sums, means and ratios that the program reports rounded to *)
(*    two or three decimals are computed exactly, and round(x, n) is       *)
(*    round-half-to-even on the exact value.  percentile, whose result is  *)
(*    compared with its inputs, rounds every operation to a float of       *)
(*    MantissaBits significant bits (Float).                               *)
(*  - Python's None is the empty tuple.                                    *)
(*  - Python lists are sequences; list index i of the source is index      *)
(*    i + 1 here.                                                          *)
(*  - A Python str is the sequence of its characters; a CSV body is the    *)
(*    sequence of its rows, each cell a str.                               *)
(***************************************************************************)
EXTENDS Integers, Sequences, FiniteSets, TLC

\* ------------------------------------------------------------------ bounds
\* Minute keys of an observation map are drawn from 0 .. MaxMinute - 1.
MaxMinute == 5
\* FAIL_STREAK is drawn from 1 .. MaxFailStreak.
MaxFailStreak == 3
\* DOWNSAMPLE_MIN and bucket_min are drawn from 1 .. MaxBucket.
MaxBucket == 2
\* Length of a calendar day in minutes (1440 in the program, scaled down).
MinutesPerDay == 2
\* percentile is called directly with lists of at most MaxValues values.
MaxValues == 4
\* A client has at most MaxCanaries canaries reporting in one minute.
MaxCanaries == 2
\* Significant bits of a float (53 in the program, scaled down).
MantissaBits == 9
\* CloudWatch answers one GetMetricData call in at most MaxPages pages.
MaxPages == 3
\* CLIENTS_JSON names at most MaxClients clients.
MaxClients == 2

VARIABLES
    pc,              \* position of the call being modelled
    FAIL_STREAK,     \* src/app.py:63
    DOWNSAMPLE_MIN,  \* src/app.py:64
    mp,              \* compute_summary: the merged minute points
    failures,        \* compute_summary: local list `failures`
    per_min_succ,    \* compute_summary: local list `per_min_succ`
    per_min_dur_ms,  \* compute_summary: local list `per_min_dur_ms`
    summary,         \* compute_summary: the returned dict
    values,          \* percentile: argument `values`
    p,               \* percentile: argument `p`
    keys,            \* downsample_series: argument `keys`
    succ_pct,        \* downsample_series: argument `succ_pct`
    resp_s,          \* downsample_series: argument `resp_s`
    bucket_min,      \* downsample_series: argument `bucket_min`
    ret,             \* value returned by percentile / downsample_series
    pages,           \* CloudWatch: the pages that answer the queries
    requests,        \* CloudWatch: the NextToken of each request received
    next_token,      \* get_metric_data_paginated: local `next_token`
    agg,             \* get_metric_data_paginated: local `agg`
    out,             \* get_metric_data_paginated: the returned list
    CLIENTS_JSON,    \* environment variable CLIENTS_JSON (src/app.py:69)
    CLIENTS,         \* src/app.py:73
    month_num,       \* handler: local `month_num`
    idx,             \* handler: position of `for client, canaries in ...`
    s3,              \* S3: the objects of the reports bucket, by key
    puts,            \* S3: the keys written, in order
    fetched,         \* CloudWatch: the clients whose metrics were fetched
    results,         \* handler: local list `results`
    index_items,     \* handler: local list `index_items`
    year_rows,       \* handler: local dict `year_rows`
    response         \* handler: the returned dict

summaryVars == <<pc, FAIL_STREAK, DOWNSAMPLE_MIN, mp, failures, per_min_succ,
                 per_min_dur_ms, summary, values, p, keys, succ_pct, resp_s,
                 bucket_min, ret>>

pagingVars == <<pages, requests, next_token, agg, out>>

handlerVars == <<CLIENTS_JSON, CLIENTS, month_num, idx, s3, puts, fetched,
                 results, index_items, year_rows, response>>

vars == <<summaryVars, pagingVars, handlerVars>>

None == <<>>

\* ------------------------------------------------------- float arithmetic
Abs(x) == IF x < 0 THEN -x ELSE x

RECURSIVE GCD(_, _)
GCD(a, b) == IF b = 0 THEN a ELSE GCD(b, a % b)

\* The float n / d (d > 0), in lowest terms.
Rat(n, d) ==
    LET g == GCD(Abs(n), d)
    IN  <<n \div g, d \div g>>

FromInt(n) == <<n, 1>>

RAdd(a, b) == Rat(a[1] * b[2] + b[1] * a[2], a[2] * b[2])

RSub(a, b) == Rat(a[1] * b[2] - b[1] * a[2], a[2] * b[2])

RMul(a, b) == Rat(a[1] * b[1], a[2] * b[2])

\* a / n for an integer n > 0.
RDivInt(a, n) == Rat(a[1], a[2] * n)

RLe(a, b) == a[1] * b[2] <= b[1] * a[2]

RLt(a, b) == a[1] * b[2] < b[1] * a[2]

RECURSIVE RSum(_)
RSum(s) == IF s = <<>> THEN FromInt(0) ELSE RAdd(Head(s), RSum(Tail(s)))

\* sum(s) / len(s) for a non-empty list of floats.
Mean(s) == RDivInt(RSum(s), Len(s))

Pow10(n) == IF n = 2 THEN 100 ELSE 1000

\* round(x, ndigits): nearest multiple of 10^-ndigits, ties to even.
RoundTruncates(x, ndigits) ==
    Rat((x[1] * Pow10(ndigits)) \div x[2], Pow10(ndigits))

Round(x, ndigits) ==
    LET n  == x[1] * Pow10(ndigits)
        fl == n \div x[2]
        r2 == 2 * (n % x[2])
        q  == IF r2 < x[2] THEN fl
              ELSE IF r2 > x[2] THEN fl + 1
              ELSE IF fl % 2 = 0 THEN fl ELSE fl + 1
    IN  Rat(q, Pow10(ndigits))

Max(a, b) == IF a >= b THEN a ELSE b

\* ------------------------------------------------------------- percentile
RECURSIVE Insert(_, _)
Insert(x, s) ==
    IF s = <<>> THEN <<x>>
    ELSE IF RLe(x, Head(s)) THEN <<x>> \o s
    ELSE <<Head(s)>> \o Insert(x, Tail(s))

\* sorted(values) for a list of floats.
RECURSIVE Sorted(_)
Sorted(s) == IF s = <<>> THEN <<>> ELSE Insert(Head(s), Sorted(Tail(s)))

Floor(x) == x[1] \div x[2]

Ceil(x) == IF x[1] % x[2] = 0 THEN x[1] \div x[2] ELSE (x[1] \div x[2]) + 1

\* min(values) and max(values) for a non-empty list of floats.
RECURSIVE MinOf(_)
MinOf(s) ==
    IF Len(s) = 1 THEN s[1]
    ELSE LET m == MinOf(Tail(s)) IN IF RLe(s[1], m) THEN s[1] ELSE m

RECURSIVE MaxOf(_)
MaxOf(s) ==
    IF Len(s) = 1 THEN s[1]
    ELSE LET m == MaxOf(Tail(s)) IN IF RLe(m, s[1]) THEN s[1] ELSE m

RECURSIVE Pow2(_)
Pow2(n) == IF n = 0 THEN 1 ELSE 2 * Pow2(n - 1)

\* 2^MantissaBits: a float's significand is an integer below it.
MantissaLimit == Pow2(MantissaBits)

\* n / d (n, d > 0) scaled by a power of two into [2^(bits-1), 2^bits),
\* rounded to an integer, ties to even, and scaled back by un / ud.
RECURSIVE FloatNorm(_, _, _, _)
FloatNorm(n, d, un, ud) ==
    IF n >= MantissaLimit * d THEN FloatNorm(n, 2 * d, 2 * un, ud)
    ELSE IF 2 * n < MantissaLimit * d THEN FloatNorm(2 * n, d, un, 2 * ud)
    ELSE LET fl == n \div d
             r2 == 2 * (n % d)
             m  == IF r2 < d THEN fl
                   ELSE IF r2 > d THEN fl + 1
                   ELSE IF fl % 2 = 0 THEN fl ELSE fl + 1
         IN  Rat(m * un, ud)

\* The float nearest to x >= 0: the result of one floating-point operation
\* whose exact value is x (round to nearest, ties to even, MantissaBits
\* significant bits).
Float(x) == IF x[1] = 0 THEN x ELSE FloatNorm(x[1], x[2], 1, 1)

\* percentile(values, p), p a number of percent.  Its result is compared
\* with the values exactly, so each floating-point operation of lines
\* 158-165 is rounded.
percentile(vals, pp) ==
    IF vals = <<>> THEN None
    ELSE IF pp <= 0 THEN MinOf(vals)
    ELSE IF pp >= 100 THEN MaxOf(vals)
    ELSE LET s == Sorted(vals)
             k == Float(RMul(FromInt(Len(s) - 1), Float(Rat(pp, 100))))
             f == Floor(k)
             c == Ceil(k)
         IN  IF f = c THEN s[f + 1]
             ELSE LET d0 == Float(RMul(s[f + 1], Float(RSub(FromInt(c), k))))
                      d1 == Float(RMul(s[c + 1], Float(RSub(k, FromInt(f)))))
                  IN  Float(RAdd(d0, d1))

\* ------------------------------------------------- Python values and text
\* A Python scalar: a str (its characters), an int or a float (num).
PyStr(cs) == [type |-> "str", chars |-> cs, num |-> <<0, 1>>]

PyInt(n) == [type |-> "int", chars |-> <<>>, num |-> <<n, 1>>]

PyFloat(x) == [type |-> "float", chars |-> <<>>, num |-> x]

DigitChars == <<"0", "1", "2", "3", "4", "5", "6", "7", "8", "9">>

\* The decimal digits of an integer n >= 0.
RECURSIVE IntChars(_)
IntChars(n) ==
    IF n < 10 THEN <<DigitChars[n + 1]>>
    ELSE IntChars(n \div 10) \o <<DigitChars[(n % 10) + 1]>>

\* repr of a float x >= 0 that has at most three decimals: the integer
\* part, a point, and the decimals without trailing zeros (at least one).
FloatChars(x) ==
    LET th == (x[1] * 1000) \div x[2]
        fr == th % 1000
        d1 == DigitChars[(fr \div 100) + 1]
        d2 == DigitChars[((fr \div 10) % 10) + 1]
        d3 == DigitChars[(fr % 10) + 1]
    IN  IntChars(th \div 1000) \o <<".">> \o
        (IF fr % 10 # 0 THEN <<d1, d2, d3>>
         ELSE IF fr % 100 # 0 THEN <<d1, d2>>
         ELSE <<d1>>)

\* str(v)
str(v) ==
    IF v.type = "str" THEN v
    ELSE IF v.type = "int" THEN PyStr(IntChars(v.num[1]))
    ELSE PyStr(FloatChars(v.num))

RECURSIVE ParseDigits(_, _)
ParseDigits(cs, acc) ==
    IF cs = <<>> THEN acc
    ELSE LET d == CHOOSE n \in 0 .. 9 : DigitChars[n + 1] = Head(cs)
         IN  ParseDigits(Tail(cs), 10 * acc + d)

\* int(v) for a str v: ok is FALSE where int raises ValueError.
int(v) ==
    IF /\ v.chars # <<>>
       /\ \A i \in 1 .. Len(v.chars) :
              \E n \in 0 .. 9 : DigitChars[n + 1] = v.chars[i]
    THEN [ok |-> TRUE, value |-> ParseDigits(v.chars, 0)]
    ELSE [ok |-> FALSE, value |-> 0]

\* ------------------------------------------------------------- S3 and CSV
\* s3.put_object(Key=key, Body=body) on the objects `store`.
put_object(store, key, body) ==
    [k \in (DOMAIN store) \cup {key} |-> IF k = key THEN body ELSE store[k]]

\* rows[m] = r
SetItem(rows, m, r) ==
    [k \in (DOMAIN rows) \cup {m} |-> IF k = m THEN r ELSE rows[k]]

\* `for r in rdr:` of load_year_rows, from line i of the file on.
RECURSIVE LoadRows(_, _, _)
LoadRows(content, i, rows) ==
    IF i > Len(content) THEN rows
    ELSE LET r == content[i]
             m == int(r.month_num)
         IN  LoadRows(content, i + 1,
                      IF m.ok THEN SetItem(rows, m.value, r) ELSE rows)

\* A plausible slip: the file is looked up under a key that does not exist.
load_year_rowsWrongKey(store, key) == [i \in 1 .. 12 |-> None]

\* load_year_rows(bucket, key): a missing object gives twelve empty months.
load_year_rows(store, key) ==
    LET rows == [i \in 1 .. 12 |-> None]
    IN  IF key \in DOMAIN store THEN LoadRows(store[key], 1, rows) ELSE rows

\* w.writerow(r): every cell is written as str(cell).
writerow(r) == [f \in DOMAIN r |-> str(r[f])]

\* `for r in iterable: if r: w.writerow(r)`
RECURSIVE WriteRows(_)
WriteRows(iterable) ==
    IF iterable = <<>> THEN <<>>
    ELSE (IF Head(iterable) # None THEN <<writerow(Head(iterable))>> ELSE <<>>)
         \o WriteRows(Tail(iterable))

\* [rows[i] for i in range(1, 13)] for a dict of rows.
DictRows(rows) == [i \in 1 .. 12 |-> rows[i]]

\* write_rows_csv(bucket, key, rows) for a list of rows; the CSV body is
\* the list of its rows under the fixed header.
write_rows_csv(store, key, iterable) ==
    put_object(store, key, WriteRows(iterable))

\* s3.copy_object(CopySource=source, Key=key)
copy_object(store, source, key) == put_object(store, key, store[source])

\* ----------------------------------------------- get_metric_data_paginated
\* The Ids of the two queries of fetch_minute_series_for_canary, in order.
QueryIds == <<"succ", "dur">>

\* The data points of one MetricDataResult.
NoPoints == [Timestamps |-> <<>>, Values |-> <<>>]

\* cw.get_metric_data: the response to a request that carries `token` (None
\* on the first request).  The NextToken of page n is the string <<n + 1>>,
\* and the last page has none.
get_metric_data(token) ==
    LET n == IF token = None THEN 1 ELSE token[1]
    IN  [MetricDataResults |-> pages[n],
         NextToken |-> IF n < Len(pages) THEN <<n + 1>> ELSE None]

\* holder["Timestamps"].extend(...); holder["Values"].extend(...) for every
\* result r of a page.
MergePage(a, page) ==
    [id \in DOMAIN a |->
        [Timestamps |-> a[id].Timestamps \o page[id].Timestamps,
         Values     |-> a[id].Values \o page[id].Values]]

\* No call of get_metric_data_paginated is in progress.
PagingIdle ==
    /\ pages = <<>>
    /\ requests = <<>>
    /\ next_token = None
    /\ agg = None
    /\ out = None

\* ------------------------------------------------------ downsample_series
\* A plausible slip: an empty bucket is emitted as a row of zeros.
flushPadsEmptyBuckets(st) ==
    LET s_avg == IF st.s_acc # <<>> THEN Mean(st.s_acc) ELSE FromInt(0)
        r_avg == IF st.r_acc # <<>> THEN Mean(st.r_acc) ELSE FromInt(0)
    IN  Append(st.rows, <<st.b_start, Round(s_avg, 3), Round(r_avg, 3)>>)

\* flush(): the rows after flushing the bucket held in st.
flush(st) ==
    IF st.s_acc = <<>> /\ st.r_acc = <<>> THEN st.rows
    ELSE LET s_avg == IF st.s_acc # <<>> THEN Mean(st.s_acc) ELSE FromInt(0)
             r_avg == IF st.r_acc # <<>> THEN Mean(st.r_acc) ELSE FromInt(0)
         IN  Append(st.rows, <<st.b_start, Round(s_avg, 3), Round(r_avg, 3)>>)

\* A plausible slip: the next bucket is one minute wide whatever bucket_min.
RECURSIVE AdvanceBucketUnitWidth(_, _, _)
AdvanceBucketUnitWidth(st, k, w) ==
    IF k >= st.b_end
    THEN AdvanceBucketUnitWidth([rows    |-> flush(st),
                                 b_start |-> st.b_end,
                                 b_end   |-> st.b_end + 1,
                                 s_acc   |-> <<>>,
                                 r_acc   |-> <<>>], k, w)
    ELSE st

\* `while k >= b_end:` of downsample_series.
RECURSIVE AdvanceBucket(_, _, _)
AdvanceBucket(st, k, w) ==
    IF k >= st.b_end
    THEN AdvanceBucket([rows    |-> flush(st),
                        b_start |-> st.b_end,
                        b_end   |-> st.b_end + w,
                        s_acc   |-> <<>>,
                        r_acc   |-> <<>>], k, w)
    ELSE st

\* `for i, k in enumerate(keys):` of downsample_series, from index i on.
RECURSIVE DownsampleLoop(_, _, _, _, _, _)
DownsampleLoop(i, st, ks, sp, rs, w) ==
    IF i > Len(ks) THEN st
    ELSE LET a == AdvanceBucket(st, ks[i], w)
             b == [a EXCEPT
                     !.s_acc = IF i <= Len(sp) THEN Append(@, sp[i]) ELSE @,
                     !.r_acc = IF i <= Len(rs) THEN Append(@, rs[i]) ELSE @]
         IN  DownsampleLoop(i + 1, b, ks, sp, rs, w)

downsample_series(ks, sp, rs, w) ==
    IF ks = <<>> THEN <<>>
    ELSE flush(DownsampleLoop(1,
                              [rows    |-> <<>>,
                               b_start |-> ks[1],
                               b_end   |-> ks[1] + w,
                               s_acc   |-> <<>>,
                               r_acc   |-> <<>>],
                              ks, sp, rs, w))

\* -------------------------------------------------------- compute_summary
\* sorted(S) for a set of timestamps.
RECURSIVE SortedKeys(_)
SortedKeys(S) ==
    IF S = {} THEN <<>>
    ELSE LET m == CHOOSE x \in S : \A y \in S : x <= y
         IN  <<m>> \o SortedKeys(S \ {m})

\* k.date()
date(k) == k \div MinutesPerDay

\* d[key] = d.get(key, 0) + 1
DictInc(d, key) ==
    IF key \in DOMAIN d THEN [d EXCEPT ![key] = @ + 1] ELSE d @@ (key :> 1)

\* all(v >= 100.0 for v in svals)
all_okAnySample(svals) == \E j \in 1 .. Len(svals) : svals[j] >= 100

all_ok(svals) == \A j \in 1 .. Len(svals) : svals[j] >= 100

IntsToFloats(s) == [j \in 1 .. Len(s) |-> FromInt(s[j])]

\* The body of `for k in keys:` for a minute with success samples.
ClassifyAppend(st, k, svals, dvals, failed) ==
    [failures       |-> Append(st.failures, failed),
     per_min_succ   |-> Append(st.per_min_succ, Mean(IntsToFloats(svals))),
     per_min_dur_ms |-> IF dvals # <<>>
                        THEN Append(st.per_min_dur_ms, Mean(IntsToFloats(dvals)))
                        ELSE st.per_min_dur_ms,
     per_day_total  |-> DictInc(st.per_day_total, date(k))]

\* A plausible slip: a minute without success samples is counted as failed.
ClassifyMinuteMissingAsDown(st, k, m) ==
    LET svals == m[k].succ
        dvals == m[k].dur
    IN  IF svals = <<>>
        THEN [st EXCEPT !.failures = Append(@, 1),
                        !.per_day_total = DictInc(@, date(k))]
        ELSE ClassifyAppend(st, k, svals, dvals, IF all_ok(svals) THEN 0 ELSE 1)

\* The body of `for k in keys:`.
ClassifyMinute(st, k, m) ==
    LET svals == m[k].succ
        dvals == m[k].dur
    IN  IF svals = <<>> THEN st
        ELSE ClassifyAppend(st, k, svals, dvals, IF all_ok(svals) THEN 0 ELSE 1)

\* The classification loop over keys, from index i on.
RECURSIVE ClassifyLoop(_, _, _, _)
ClassifyLoop(i, st, ks, m) ==
    IF i > Len(ks) THEN st
    ELSE ClassifyLoop(i + 1, ClassifyMinute(st, ks[i], m), ks, m)

Classify(ks, m) ==
    ClassifyLoop(1, [failures |-> <<>>, per_min_succ |-> <<>>,
                     per_min_dur_ms |-> <<>>, per_day_total |-> <<>>], ks, m)

\* `for j in range(start_i, end_i + 1): per_day_down[d] += 1`
RECURSIVE MarkDays(_, _, _, _)
MarkDays(d, j, end_i, ks) ==
    IF j > end_i THEN d
    ELSE MarkDays(DictInc(d, date(ks[j])), j + 1, end_i, ks)

\* A plausible slip: the incident starts at the first minute of the run.
CloseRunCountsWholeRun(st, end_i, ks, fs) ==
    LET start_i == st.run_start_idx
    IN  [st EXCEPT
           !.incidents    = Append(@, <<ks[start_i], ks[end_i], end_i - start_i + 1>>),
           !.down_minutes = @ + (end_i - start_i + 1),
           !.per_day_down = MarkDays(@, start_i, end_i, ks)]

\* A plausible slip: down_minutes grows by the whole run, grace minutes
\* included, while the incident is the counted part.
CloseRunDownIncludesGrace(st, end_i, ks, fs) ==
    LET start_i == st.run_start_idx + fs - 1
    IN  [st EXCEPT
           !.incidents    = Append(@, <<ks[start_i], ks[end_i], end_i - start_i + 1>>),
           !.down_minutes = @ + (end_i - st.run_start_idx + 1),
           !.per_day_down = MarkDays(@, start_i, end_i, ks)]

\* The incident appended for a run that started at run_start_idx and whose
\* last failed minute has index end_i (lines 336-343 and 347-353).
CloseRun(st, end_i, ks, fs) ==
    LET start_i == st.run_start_idx + fs - 1
    IN  [st EXCEPT
           !.incidents    = Append(@, <<ks[start_i], ks[end_i], end_i - start_i + 1>>),
           !.down_minutes = @ + (end_i - start_i + 1),
           !.per_day_down = MarkDays(@, start_i, end_i, ks)]

\* A plausible slip: the run is not reset after an up minute.
DetectStepNoReset(st, i, f, ks, fs) ==
    IF f = 1
    THEN [st EXCEPT !.run_start_idx = IF st.run_len = 0 THEN i ELSE @,
                    !.run_len = @ + 1]
    ELSE IF st.run_len >= fs THEN CloseRun(st, i - 1, ks, fs) ELSE st

\* The body of `for i, f in enumerate(failures):`.  run_start_idx = 0 stands
\* for None.
DetectStep(st, i, f, ks, fs) ==
    IF f = 1
    THEN [st EXCEPT !.run_start_idx = IF st.run_len = 0 THEN i ELSE @,
                    !.run_len = @ + 1]
    ELSE [(IF st.run_len >= fs THEN CloseRun(st, i - 1, ks, fs) ELSE st)
            EXCEPT !.run_len = 0, !.run_start_idx = 0]

RECURSIVE DetectLoop(_, _, _, _, _)
DetectLoop(i, st, fl, ks, fs) ==
    IF i > Len(fl) THEN st
    ELSE DetectLoop(i + 1, DetectStep(st, i, fl[i], ks, fs), fl, ks, fs)

\* Incident detection (lines 323-353), including the run still open at the
\* end of the series.
Detect(fl, ks, fs) ==
    LET st == DetectLoop(1, [incidents |-> <<>>, down_minutes |-> 0,
                             run_len |-> 0, run_start_idx |-> 0,
                             per_day_down |-> <<>>], fl, ks, fs)
    IN  IF st.run_len >= fs THEN CloseRun(st, Len(fl), ks, fs) ELSE st

\* availability_pct of lines 355-356.
AvailabilityPct(total_minutes, down_minutes) ==
    LET availability == RSub(FromInt(1),
                             Rat(down_minutes, Max(total_minutes, 1)))
    IN  Round(RMul(availability, FromInt(100)), 3)

\* The daily rollup list.
Daily(per_day_total, per_day_down) ==
    LET ds == SortedKeys(DOMAIN per_day_total)
    IN  [n \in 1 .. Len(ds) |->
           LET d  == ds[n]
               t  == per_day_total[d]
               dn == IF d \in DOMAIN per_day_down THEN per_day_down[d] ELSE 0
               pct == RMul(FromInt(100),
                           RSub(FromInt(1), Rat(dn, Max(t, 1))))
           IN  <<d, Round(pct, 3), t, dn>>]

RECURSIVE SumMinutes(_)
SumMinutes(incs) ==
    IF incs = <<>> THEN 0 ELSE Head(incs)[3] + SumMinutes(Tail(incs))

\* mttr of line 378.
Mttr(incidents) ==
    IF incidents # <<>>
    THEN Round(Rat(SumMinutes(incidents), Len(incidents)), 2)
    ELSE None

\* mtbf of lines 380-381.
MtbfUsesTotal(incidents, total_minutes, down_minutes) ==
    IF incidents # <<>>
    THEN Round(Rat(total_minutes, Len(incidents)), 2)
    ELSE None

Mtbf(incidents, total_minutes, down_minutes) ==
    IF incidents # <<>>
    THEN Round(Rat(total_minutes - down_minutes, Len(incidents)), 2)
    ELSE None

RoundOrNone(x, ndigits) == IF x # None THEN Round(x, ndigits) ELSE None

\* The locals of compute_summary after the classification loop.
Locals(m) == Classify(SortedKeys(DOMAIN m), m)

\* compute_summary(mp) under the configuration (fs, bm).
compute_summary(m, fs, bm) ==
    LET ks == SortedKeys(DOMAIN m)
    IN  IF ks = <<>>
        THEN [total_minutes |-> 0, down_minutes |-> 0,
              availability_pct |-> FromInt(100), incidents |-> <<>>,
              avg_resp_s |-> None, p50_resp_s |-> None, p95_resp_s |-> None,
              p99_resp_s |-> None, daily |-> <<>>, chart_rows |-> <<>>,
              mttr_min |-> None, mtbf_min |-> None]
        ELSE LET c  == Classify(ks, m)
                 total_minutes == Len(c.failures)
                 det == Detect(c.failures, ks, fs)
                 resp_s_values ==
                     [j \in 1 .. Len(c.per_min_dur_ms) |->
                        RDivInt(c.per_min_dur_ms[j], 1000)]
                 avg_resp_s == IF resp_s_values # <<>>
                               THEN Mean(resp_s_values) ELSE None
             IN  [total_minutes    |-> total_minutes,
                  down_minutes     |-> det.down_minutes,
                  availability_pct |-> AvailabilityPct(total_minutes, det.down_minutes),
                  incidents        |-> det.incidents,
                  avg_resp_s       |-> RoundOrNone(avg_resp_s, 3),
                  p50_resp_s       |-> RoundOrNone(percentile(resp_s_values, 50), 3),
                  p95_resp_s       |-> RoundOrNone(percentile(resp_s_values, 95), 3),
                  p99_resp_s       |-> RoundOrNone(percentile(resp_s_values, 99), 3),
                  daily            |-> Daily(c.per_day_total, det.per_day_down),
                  chart_rows       |-> downsample_series(ks, c.per_min_succ,
                                                         resp_s_values, bm),
                  mttr_min         |-> Mttr(det.incidents),
                  mtbf_min         |-> Mtbf(det.incidents, total_minutes,
                                            det.down_minutes)]

\* ---------------------------------------------------------------- handler
\* A JSON value is an object (items: its members in order, each a client
\* and its list of canaries), an array (elements) or null.
JsonObject(items) == [type |-> "object", items |-> items, elements |-> <<>>]

JsonArray(elements) == [type |-> "array", items |-> <<>>, elements |-> elements]

JsonNull == [type |-> "null", items |-> <<>>, elements |-> <<>>]

EmptyObject == JsonObject(<<>>)

\* bool(v) for a JSON value v.
Truthy(v) == v.type # "null" /\ (v.items # <<>> \/ v.elements # <<>>)

\* _load_clients(): json.loads raises on a text that is not JSON.
_load_clients(text) ==
    IF ~text.valid THEN EmptyObject
    ELSE IF Truthy(text.value) THEN text.value ELSE EmptyObject

SERVICE == <<"CDP">>

\* datetime.datetime.now(timezone.utc).isoformat() of this run.
generated_at == <<"now">>

\* start.strftime("%B")
MonthNames ==
    <<"January", "February", "March", "April", "May", "June", "July",
      "August", "September", "October", "November", "December">>

\* The object keys of a run, under month_prefix and S3_PREFIX.
per_client_csv_key(client) == <<"month", "csv", client>>

html_file(client) == <<"html", client>>

per_client_html_key(client) == <<"month", "html", client>>

jsonl_key == <<"month", "uptime.jsonl">>

index_key == <<"month", "index.html">>

year_key == <<"year", "cdp-year.csv">>

current_key == <<"current", "cdp-year.csv">>

\* The row dict of lines 760-769 and 850-859.
ReportRow(m, client, availability_pct, avg_resp_s, generated) ==
    [year              |-> str(PyInt(2026)),
     month_num         |-> PyInt(m),
     month_name        |-> PyStr(<<MonthNames[m]>>),
     client            |-> PyStr(client),
     service           |-> PyStr(SERVICE),
     availability_pct  |-> PyFloat(availability_pct),
     response_time_sec |-> IF avg_resp_s # None THEN PyFloat(avg_resp_s)
                           ELSE PyStr(<<>>),
     generated_at_utc  |-> PyStr(generated)]

\* The dict appended to `results` (lines 802-821).
ResultOf(m, client, sm) ==
    [client           |-> client,
     month_num        |-> m,
     month_name       |-> MonthNames[m],
     generated_at_utc |-> generated_at,
     minutes_total    |-> sm.total_minutes,
     minutes_down     |-> sm.down_minutes,
     availability_pct |-> sm.availability_pct,
     avg_resp_s       |-> sm.avg_resp_s,
     p50_resp_s       |-> sm.p50_resp_s,
     p95_resp_s       |-> sm.p95_resp_s,
     p99_resp_s       |-> sm.p99_resp_s,
     incidents        |-> sm.incidents,
     mttr_min         |-> sm.mttr_min,
     mtbf_min         |-> sm.mtbf_min]

\* year_rows[month_num] = {...} when there are results (lines 848-859).
UpdateYearRows(rows, m, res) ==
    IF res # <<>>
    THEN SetItem(rows, m, ReportRow(m, res[1].client, res[1].availability_pct,
                                    res[1].avg_resp_s, res[1].generated_at_utc))
    ELSE rows

\* render_html_report(...): the page is a function of its arguments.
render_html_report(client, sm) == [client |-> client, summary |-> sm]

\* render_month_index(items=index_items)
render_month_index(items) == [items |-> items]

\* An empty bucket.
NoObjects == [k \in {} |-> None]

\* handler is not running.
HandlerIdle ==
    /\ CLIENTS_JSON = [valid |-> TRUE, value |-> EmptyObject]
    /\ CLIENTS = EmptyObject
    /\ month_num = 1
    /\ idx = 0
    /\ s3 = NoObjects
    /\ puts = <<>>
    /\ fetched = <<>>
    /\ results = <<>>
    /\ index_items = <<>>
    /\ year_rows = None
    /\ response = None

\* ------------------------------------------------------------ input sets
Minutes == 0 .. MaxMinute - 1

SeqsUpTo(S, n) == UNION {[1 .. l -> S] : l \in 0 .. n}

\* What merge_minute_points can hold under one minute key: the SuccessPercent
\* and Duration samples of the client's canaries (at least one sample).
SuccValues == {0, 99, 100}

DurValues == {100, 400}

AllSamples ==
    { s \in [succ : SeqsUpTo(SuccValues, MaxCanaries),
             dur  : SeqsUpTo(DurValues, MaxCanaries)] :
        s.succ # <<>> \/ s.dur # <<>> }

\* The samples the longer series are made of.
Samples ==
    { [succ |-> <<100, 100>>, dur |-> <<100, 400>>],   \* up, two canaries
      [succ |-> <<100, 99>>,  dur |-> <<>>],           \* one canary failing
      [succ |-> <<>>,         dur |-> <<100>>] }       \* latency only

\* Latencies and percents percentile is called with directly.
LatencyValues == {7, 100, 200, 300, 400}

PValues == {-10, 0, 10, 25, 50, 75, 95, 99, 100, 150}

\* Per-minute success averages and latencies downsample_series is called
\* with directly.
SuccAverages == {FromInt(0), FromInt(50), FromInt(100)}

RespValues == {Rat(1, 5)}

\* ------------------------------------------------- compute_summary (Spec)
Init ==
    /\ pc = "compute_summary"
    /\ FAIL_STREAK \in 1 .. MaxFailStreak
    /\ DOWNSAMPLE_MIN \in 1 .. MaxBucket
    /\ \/ \E K \in SUBSET Minutes : mp \in [K -> Samples]
       \/ mp \in [{0} -> AllSamples]
    /\ failures = <<>>
    /\ per_min_succ = <<>>
    /\ per_min_dur_ms = <<>>
    /\ summary = None
    /\ values = <<>>
    /\ p = 0
    /\ keys = <<>>
    /\ succ_pct = <<>>
    /\ resp_s = <<>>
    /\ bucket_min = 0
    /\ ret = None
    /\ PagingIdle
    /\ HandlerIdle

\* summary = compute_summary(mp)
ComputeSummary ==
    /\ pc = "compute_summary"
    /\ pc' = "done"
    /\ summary' = compute_summary(mp, FAIL_STREAK, DOWNSAMPLE_MIN)
    /\ LET c == Locals(mp)
       IN  /\ failures' = c.failures
           /\ per_min_succ' = c.per_min_succ
           /\ per_min_dur_ms' = c.per_min_dur_ms
    /\ UNCHANGED <<FAIL_STREAK, DOWNSAMPLE_MIN, mp, values, p, keys, succ_pct,
                   resp_s, bucket_min, ret>>
    /\ UNCHANGED <<pagingVars, handlerVars>>

Next == ComputeSummary

Spec == Init /\ [][Next]_vars

\* --------------------------------------------- percentile (SpecPercentile)
InitPercentile ==
    /\ pc = "percentile"
    /\ \E s \in SeqsUpTo(LatencyValues, MaxValues) : values = IntsToFloats(s)
    /\ p \in PValues
    /\ FAIL_STREAK = 1
    /\ DOWNSAMPLE_MIN = 1
    /\ mp = <<>>
    /\ failures = <<>>
    /\ per_min_succ = <<>>
    /\ per_min_dur_ms = <<>>
    /\ summary = None
    /\ keys = <<>>
    /\ succ_pct = <<>>
    /\ resp_s = <<>>
    /\ bucket_min = 0
    /\ ret = None
    /\ PagingIdle
    /\ HandlerIdle

\* ret = percentile(values, p)
CallPercentile ==
    /\ pc = "percentile"
    /\ pc' = "done"
    /\ ret' = percentile(values, p)
    /\ UNCHANGED <<FAIL_STREAK, DOWNSAMPLE_MIN, mp, failures, per_min_succ,
                   per_min_dur_ms, summary, values, p, keys, succ_pct, resp_s,
                   bucket_min>>
    /\ UNCHANGED <<pagingVars, handlerVars>>

NextPercentile == CallPercentile

SpecPercentile == InitPercentile /\ [][NextPercentile]_vars

\* ------------------------------------- downsample_series (SpecDownsample)
InitDownsample ==
    /\ pc = "downsample_series"
    /\ \E K \in SUBSET Minutes : keys = SortedKeys(K)
    /\ succ_pct \in SeqsUpTo(SuccAverages, Len(keys))
    /\ resp_s \in SeqsUpTo(RespValues, Len(keys))
    /\ bucket_min \in 1 .. MaxBucket
    /\ FAIL_STREAK = 1
    /\ DOWNSAMPLE_MIN = 1
    /\ mp = <<>>
    /\ failures = <<>>
    /\ per_min_succ = <<>>
    /\ per_min_dur_ms = <<>>
    /\ summary = None
    /\ values = <<>>
    /\ p = 0
    /\ ret = None
    /\ PagingIdle
    /\ HandlerIdle

\* ret = downsample_series(keys, succ_pct, resp_s, bucket_min)
CallDownsample ==
    /\ pc = "downsample_series"
    /\ pc' = "done"
    /\ ret' = downsample_series(keys, succ_pct, resp_s, bucket_min)
    /\ UNCHANGED <<FAIL_STREAK, DOWNSAMPLE_MIN, mp, failures, per_min_succ,
                   per_min_dur_ms, summary, values, p, keys, succ_pct, resp_s,
                   bucket_min>>
    /\ UNCHANGED <<pagingVars, handlerVars>>

NextDownsample == CallDownsample

SpecDownsample == InitDownsample /\ [][NextDownsample]_vars

\* --------------------------------- get_metric_data_paginated (SpecPaging)
\* What one page can hold for one query.
PagePoints ==
    { NoPoints,
      [Timestamps |-> <<0>>, Values |-> <<100>>],
      [Timestamps |-> <<1>>, Values |-> <<99>>] }

PageResults == [{QueryIds[1], QueryIds[2]} -> PagePoints]

InitPaging ==
    /\ pc = "get_metric_data"
    /\ \E n \in 1 .. MaxPages : pages \in [1 .. n -> PageResults]
    /\ requests = <<>>
    /\ next_token = None
    /\ agg = None
    /\ out = None
    /\ FAIL_STREAK = 1
    /\ DOWNSAMPLE_MIN = 1
    /\ mp = <<>>
    /\ failures = <<>>
    /\ per_min_succ = <<>>
    /\ per_min_dur_ms = <<>>
    /\ summary = None
    /\ values = <<>>
    /\ p = 0
    /\ keys = <<>>
    /\ succ_pct = <<>>
    /\ resp_s = <<>>
    /\ bucket_min = 0
    /\ ret = None
    /\ HandlerIdle

\* One iteration of `while True:` (lines 177-198): the request, the merge
\* of its response, and the test of its NextToken.  `results is None` is
\* `agg is None`.
GetMetricData ==
    /\ pc = "get_metric_data"
    /\ LET resp == get_metric_data(next_token)
       IN  /\ requests' = Append(requests, next_token)
           /\ agg' = IF agg = None
                     THEN [id \in DOMAIN resp.MetricDataResults |-> NoPoints]
                     ELSE MergePage(agg, resp.MetricDataResults)
           /\ next_token' = resp.NextToken
           /\ pc' = IF resp.NextToken = None THEN "convert" ELSE pc
    /\ UNCHANGED <<FAIL_STREAK, DOWNSAMPLE_MIN, mp, failures, per_min_succ,
                   per_min_dur_ms, summary, values, p, keys, succ_pct, resp_s,
                   bucket_min, ret, pages, out>>
    /\ UNCHANGED handlerVars

\* Lines 200-205: agg converted back to a list in the order of the queries.
ConvertAgg ==
    /\ pc = "convert"
    /\ pc' = "done"
    /\ out' = [n \in 1 .. Len(QueryIds) |->
                 [Id         |-> QueryIds[n],
                  Timestamps |-> agg[QueryIds[n]].Timestamps,
                  Values     |-> agg[QueryIds[n]].Values]]
    /\ UNCHANGED <<FAIL_STREAK, DOWNSAMPLE_MIN, mp, failures, per_min_succ,
                   per_min_dur_ms, summary, values, p, keys, succ_pct, resp_s,
                   bucket_min, ret, pages, requests, next_token, agg>>
    /\ UNCHANGED handlerVars

NextPaging == GetMetricData \/ ConvertAgg

SpecPaging == InitPaging /\ [][NextPaging]_vars

\* ---------------------------------------------------- handler (SpecHandler)
\* A configuration names at most MaxClients clients.
ClientNames == {<<"A">>, <<"B">>, <<"C">>}

CanaryLists == {<<>>, <<<<"c1">>>>}

ClientLists ==
    UNION { { [i \in 1 .. n |-> [client |-> names[i], canaries |-> cans[i]]] :
                names \in {f \in [1 .. n -> ClientNames] :
                              \A i, j \in 1 .. n : i # j => f[i] # f[j]},
                cans \in [1 .. n -> CanaryLists] } :
            n \in 0 .. MaxClients }

\* The values of CLIENTS_JSON: a text that is not JSON, null, [], a list of
\* canaries instead of an object, and objects.
ClientsJsonTexts ==
    { [valid |-> FALSE, value |-> JsonNull],
      [valid |-> TRUE, value |-> JsonNull],
      [valid |-> TRUE, value |-> JsonArray(<<>>)],
      [valid |-> TRUE, value |-> JsonArray(<<<<"c1">>>>)] }
    \cup { [valid |-> TRUE, value |-> JsonObject(items)] : items \in ClientLists }

\* The reporting months of the runs.
ReportMonths == {2, 12}

\* The row an earlier run wrote for month m.
EarlierRow(m) ==
    writerow(ReportRow(m, <<"Z">>, Rat(199, 2), Rat(1, 4), <<"earlier">>))

\* The year rollup files earlier runs can have left: rows in month order.
YearFiles ==
    { LET ms == SortedKeys(M) IN [n \in 1 .. Len(ms) |-> EarlierRow(ms[n])] :
        M \in SUBSET {1, 2, 12} }

\* The bucket at the start of a run: no year rollup yet, or a year rollup
\* and its stable copy.
Buckets ==
    {NoObjects} \cup
    { put_object(put_object(NoObjects, year_key, f), current_key, f) :
        f \in YearFiles }

\* What merge_minute_points can return for a client.
MinutePointSets ==
    { [k \in {} |-> None],
      [k \in {0} |-> [succ |-> <<100, 100>>, dur |-> <<100, 400>>]],
      [k \in {0, 1} |-> IF k = 0 THEN [succ |-> <<100, 99>>, dur |-> <<>>]
                        ELSE [succ |-> <<100, 100>>, dur |-> <<100, 400>>]] }

InitHandler ==
    /\ pc = "handler"
    /\ CLIENTS_JSON \in ClientsJsonTexts
    /\ CLIENTS = _load_clients(CLIENTS_JSON)
    /\ month_num \in ReportMonths
    /\ idx = 0
    /\ s3 \in Buckets
    /\ puts = <<>>
    /\ fetched = <<>>
    /\ results = <<>>
    /\ index_items = <<>>
    /\ year_rows = None
    /\ response = None
    /\ FAIL_STREAK = 1
    /\ DOWNSAMPLE_MIN = 1
    /\ mp = <<>>
    /\ failures = <<>>
    /\ per_min_succ = <<>>
    /\ per_min_dur_ms = <<>>
    /\ summary = None
    /\ values = <<>>
    /\ p = 0
    /\ keys = <<>>
    /\ succ_pct = <<>>
    /\ resp_s = <<>>
    /\ bucket_min = 0
    /\ ret = None
    /\ PagingIdle

\* Lines 722-745: the test of CLIENTS and the entry of the loop over
\* CLIENTS.items(), which raises AttributeError when CLIENTS is no dict.
HandlerStart ==
    /\ pc = "handler"
    /\ IF ~Truthy(CLIENTS)
       THEN /\ pc' = "done"
            /\ response' = [status |-> "error", reason |-> "no_clients"]
            /\ idx' = idx
       ELSE IF CLIENTS.type # "object"
       THEN /\ pc' = "raised"
            /\ UNCHANGED <<response, idx>>
       ELSE /\ pc' = "clients"
            /\ idx' = 1
            /\ UNCHANGED response
    /\ UNCHANGED <<FAIL_STREAK, DOWNSAMPLE_MIN, mp, failures, per_min_succ,
                   per_min_dur_ms, summary, values, p, keys, succ_pct, resp_s,
                   bucket_min, ret>>
    /\ UNCHANGED <<CLIENTS_JSON, CLIENTS, month_num, s3, puts, fetched,
                   results, index_items, year_rows>>
    /\ UNCHANGED pagingVars

\* One iteration of `for client, canaries in CLIENTS.items():` (lines
\* 745-821).
ProcessClient ==
    /\ pc = "clients"
    /\ idx <= Len(CLIENTS.items)
    /\ idx' = idx + 1
    /\ LET client   == CLIENTS.items[idx].client
           canaries == CLIENTS.items[idx].canaries
       IN  IF canaries = <<>>
           THEN UNCHANGED <<mp, failures, per_min_succ, per_min_dur_ms,
                            summary, s3, puts, fetched, results, index_items>>
           ELSE \E minute_points \in MinutePointSets :
                  LET sm  == compute_summary(minute_points, FAIL_STREAK,
                                             DOWNSAMPLE_MIN)
                      c   == Locals(minute_points)
                      row == ReportRow(month_num, client, sm.availability_pct,
                                       sm.avg_resp_s, generated_at)
                      s1  == write_rows_csv(s3, per_client_csv_key(client),
                                            <<row>>)
                  IN  /\ fetched' = Append(fetched, client)
                      /\ mp' = minute_points
                      /\ summary' = sm
                      /\ failures' = c.failures
                      /\ per_min_succ' = c.per_min_succ
                      /\ per_min_dur_ms' = c.per_min_dur_ms
                      /\ s3' = put_object(s1, per_client_html_key(client),
                                          render_html_report(client, sm))
                      /\ puts' = puts \o <<per_client_csv_key(client),
                                           per_client_html_key(client)>>
                      /\ index_items' = Append(index_items,
                                               <<client, html_file(client)>>)
                      /\ results' = Append(results,
                                           ResultOf(month_num, client, sm))
    /\ UNCHANGED <<pc, FAIL_STREAK, DOWNSAMPLE_MIN, values, p, keys, succ_pct,
                   resp_s, bucket_min, ret>>
    /\ UNCHANGED <<CLIENTS_JSON, CLIENTS, month_num, year_rows, response>>
    /\ UNCHANGED pagingVars

\* Lines 823-830: the month's JSONL snapshot, written after the loop.
WriteMonthJsonl ==
    /\ pc = "clients"
    /\ idx > Len(CLIENTS.items)
    /\ pc' = "index"
    /\ s3' = put_object(s3, jsonl_key, results)
    /\ puts' = Append(puts, jsonl_key)
    /\ UNCHANGED <<FAIL_STREAK, DOWNSAMPLE_MIN, mp, failures, per_min_succ,
                   per_min_dur_ms, summary, values, p, keys, succ_pct, resp_s,
                   bucket_min, ret>>
    /\ UNCHANGED <<CLIENTS_JSON, CLIENTS, month_num, idx, fetched, results,
                   index_items, year_rows, response>>
    /\ UNCHANGED pagingVars

\* Lines 832-843: the month index, written when there is a report.
WriteMonthIndex ==
    /\ pc = "index"
    /\ pc' = "year"
    /\ IF index_items # <<>>
       THEN /\ s3' = put_object(s3, index_key, render_month_index(index_items))
            /\ puts' = Append(puts, index_key)
       ELSE UNCHANGED <<s3, puts>>
    /\ UNCHANGED <<FAIL_STREAK, DOWNSAMPLE_MIN, mp, failures, per_min_succ,
                   per_min_dur_ms, summary, values, p, keys, succ_pct, resp_s,
                   bucket_min, ret>>
    /\ UNCHANGED <<CLIENTS_JSON, CLIENTS, month_num, idx, fetched, results,
                   index_items, year_rows, response>>
    /\ UNCHANGED pagingVars

\* Lines 845-866: the year rollup is loaded, the reporting month's row is
\* set from the first result, and the rollup and its stable copy are
\* written.
UpdateYearRollup ==
    /\ pc = "year"
    /\ pc' = "return"
    /\ LET rows == UpdateYearRows(load_year_rows(s3, year_key), month_num,
                                  results)
           s1   == write_rows_csv(s3, year_key, DictRows(rows))
       IN  /\ year_rows' = rows
           /\ s3' = copy_object(s1, year_key, current_key)
           /\ puts' = puts \o <<year_key, current_key>>
    /\ UNCHANGED <<FAIL_STREAK, DOWNSAMPLE_MIN, mp, failures, per_min_succ,
                   per_min_dur_ms, summary, values, p, keys, succ_pct, resp_s,
                   bucket_min, ret>>
    /\ UNCHANGED <<CLIENTS_JSON, CLIENTS, month_num, idx, fetched, results,
                   index_items, response>>
    /\ UNCHANGED pagingVars

\* Line 868.
Return ==
    /\ pc = "return"
    /\ pc' = "done"
    /\ response' = [status |-> "ok", prefix |-> <<"month">>,
                    results |-> results]
    /\ UNCHANGED <<FAIL_STREAK, DOWNSAMPLE_MIN, mp, failures, per_min_succ,
                   per_min_dur_ms, summary, values, p, keys, succ_pct, resp_s,
                   bucket_min, ret>>
    /\ UNCHANGED <<CLIENTS_JSON, CLIENTS, month_num, idx, s3, puts, fetched,
                   results, index_items, year_rows>>
    /\ UNCHANGED pagingVars

NextHandler ==
    \/ HandlerStart
    \/ ProcessClient
    \/ WriteMonthJsonl
    \/ WriteMonthIndex
    \/ UpdateYearRollup
    \/ Return

SpecHandler == InitHandler /\ [][NextHandler]_vars

\* ================================================================ claims
\* Definitions the claims are stated with; they describe the input and the
\* result and use none of the operators above that compute the result.

\* The minute keys that have at least one success sample, ascending: the
\* timestamps of the classified series.
ClassifiedKeySet == {k \in DOMAIN mp : mp[k].succ # <<>>}

\* The timestamp of the n-th classified minute.
ClassifiedKey(n) ==
    CHOOSE k \in ClassifiedKeySet :
        Cardinality({j \in ClassifiedKeySet : j <= k}) = n

\* The maximal runs <<first, last>> of consecutive down minutes of
\* `failures`.
DownRuns ==
    LET n == Len(failures)
    IN  { r \in (1 .. n) \X (1 .. n) :
            /\ r[1] <= r[2]
            /\ \A i \in r[1] .. r[2] : failures[i] = 1
            /\ r[1] = 1 \/ failures[r[1] - 1] = 0
            /\ r[2] = n \/ failures[r[2] + 1] = 0 }

RunLength(r) == r[2] - r[1] + 1

\* The runs long enough to count, and the position of one among them.
CountedRuns == {r \in DownRuns : RunLength(r) >= FAIL_STREAK}

RunRank(r) == Cardinality({q \in CountedRuns : q[1] <= r[1]})

RECURSIVE SumOverRuns(_)
SumOverRuns(R) ==
    IF R = {} THEN 0
    ELSE LET r == CHOOSE x \in R : TRUE
         IN  (RunLength(r) - FAIL_STREAK + 1) + SumOverRuns(R \ {r})

RECURSIVE SumDurations(_, _)
SumDurations(incs, n) ==
    IF n = 0 THEN 0 ELSE incs[n][3] + SumDurations(incs, n - 1)

\* C1: each maximal run of L consecutive down minutes yields exactly one
\* incident, of duration L - FAIL_STREAK + 1, when L >= FAIL_STREAK, and no
\* incident and no downtime when L < FAIL_STREAK; a run still open at the
\* end of the series is treated the same way.
C1_RunDurations ==
    pc = "done" =>
        /\ Len(summary.incidents) = Cardinality(CountedRuns)
        /\ \A r \in CountedRuns :
               summary.incidents[RunRank(r)][3] = RunLength(r) - FAIL_STREAK + 1
        /\ summary.down_minutes = SumOverRuns(CountedRuns)

\* A short run is followed by a run that is still open at the end of the
\* series and is long enough to count, under a streak threshold above one.
C1_Witness ==
    /\ pc = "done"
    /\ FAIL_STREAK >= 2
    /\ \E r \in DownRuns : RunLength(r) < FAIL_STREAK
    /\ \E r \in CountedRuns : r[2] = Len(failures) /\ RunLength(r) > FAIL_STREAK
    /\ Len(summary.incidents) = 1

\* C2: each incident starts at the timestamp of the FAIL_STREAK-th down
\* minute of its run in the classified series and ends at the timestamp of
\* the last down minute of that run, for every observation map.
C2_IncidentTimestamps ==
    pc = "done" =>
        \A r \in CountedRuns :
            /\ RunRank(r) <= Len(summary.incidents)
            /\ summary.incidents[RunRank(r)][1]
                   = ClassifiedKey(r[1] + FAIL_STREAK - 1)
            /\ summary.incidents[RunRank(r)][2] = ClassifiedKey(r[2])

\* C3: a classified minute is up iff every success sample of the minute is
\* >= 100; one sample below 100 makes the minute down.
C3_MinuteUpIffAllSamplesOk ==
    pc = "done" =>
        /\ Len(failures) = Cardinality(ClassifiedKeySet)
        /\ \A n \in 1 .. Len(failures) :
               LET svals == mp[ClassifiedKey(n)].succ
               IN  /\ failures[n] \in {0, 1}
                   /\ failures[n] = 1 <=> \E j \in 1 .. Len(svals) : svals[j] < 100

\* A minute with one sample at 100 and one below 100 was classified down.
C3_Witness ==
    /\ pc = "done"
    /\ \E n \in 1 .. Len(failures) :
           LET svals == mp[ClassifiedKey(n)].succ
           IN  /\ failures[n] = 1
               /\ \E j \in 1 .. Len(svals) : svals[j] >= 100
               /\ \E j \in 1 .. Len(svals) : svals[j] < 100

\* The observation map without the minute keys that have no success sample.
WithoutUnclassified == [k \in ClassifiedKeySet |-> mp[k]]

Durations(incs) == [n \in 1 .. Len(incs) |-> incs[n][3]]

\* C4: a minute key without success samples is not part of the classified
\* series: total_minutes counts the keys that have a success sample, and
\* the verdicts, the incident durations and the downtime are those of the
\* map with such keys removed (the key neither extends nor breaks a run).
C4_UnclassifiedMinutesExcluded ==
    pc = "done" =>
        LET verdicts == Locals(WithoutUnclassified).failures
            without  == Detect(verdicts, SortedKeys(ClassifiedKeySet), FAIL_STREAK)
        IN  /\ summary.total_minutes = Cardinality(ClassifiedKeySet)
            /\ Len(failures) = Cardinality(ClassifiedKeySet)
            /\ failures = verdicts
            /\ summary.down_minutes = without.down_minutes
            /\ Durations(summary.incidents) = Durations(without.incidents)

\* A key without success samples lies between two down minutes of one
\* counted run.
C4_Witness ==
    /\ pc = "done"
    /\ FAIL_STREAK = 2
    /\ \E a, b, c \in DOMAIN mp :
           /\ a < b /\ b < c
           /\ mp[b].succ = <<>>
           /\ \A k \in ClassifiedKeySet : k \in {a, c}
           /\ a \in ClassifiedKeySet /\ c \in ClassifiedKeySet
    /\ failures = <<1, 1>>
    /\ Durations(summary.incidents) = <<1>>

\* C5: down_minutes is the sum of the incident durations; the down minutes
\* of runs shorter than FAIL_STREAK and the first FAIL_STREAK - 1 minutes of
\* a counted run are in total_minutes and not in down_minutes.
C5_DownMinutesIsSumOfDurations ==
    pc = "done" =>
        /\ summary.down_minutes
               = SumDurations(summary.incidents, Len(summary.incidents))
        /\ summary.down_minutes = SumOverRuns(CountedRuns)
        /\ summary.total_minutes = Len(failures)

\* There is an incident, and more minutes are down than counted as downtime.
C5_Witness ==
    /\ pc = "done"
    /\ Len(summary.incidents) >= 1
    /\ \E r \in DownRuns : RunLength(r) < FAIL_STREAK
    /\ Cardinality({n \in 1 .. Len(failures) : failures[n] = 1})
           > summary.down_minutes + 1

\* C6: 0 <= down_minutes <= total_minutes and 0 <= availability_pct <= 100.
C6_SummaryBounds ==
    pc = "done" =>
        /\ 0 <= summary.down_minutes
        /\ summary.down_minutes <= summary.total_minutes
        /\ RLe(FromInt(0), summary.availability_pct)
        /\ RLe(summary.availability_pct, FromInt(100))

\* Two runs were counted, and an up minute follows the first.
C6_Witness ==
    /\ pc = "done"
    /\ Len(summary.incidents) = 2
    /\ summary.down_minutes < summary.total_minutes
    /\ summary.down_minutes >= 3

\* x, a float with at most three decimals, in thousandths.
Thousandths(x) == (x[1] * 1000) \div x[2]

Hundredths(x) == (x[1] * 100) \div x[2]

\* C7: availability_pct is (1 - down_minutes / max(total_minutes, 1)) * 100
\* to the nearest thousandth; with total_minutes = 0 the summary has
\* availability_pct = 100.0, down_minutes = 0, no incidents, and null
\* latency statistics, MTTR and MTBF.
C7_AvailabilityPct ==
    pc = "done" =>
        LET t == IF summary.total_minutes >= 1 THEN summary.total_minutes ELSE 1
            a == summary.availability_pct
        IN  /\ 1000 % a[2] = 0
            /\ 2 * Abs(Thousandths(a) * t - 100000 * (t - summary.down_minutes)) <= t
            /\ summary.total_minutes = 0 =>
                   /\ a = FromInt(100)
                   /\ summary.down_minutes = 0
                   /\ summary.incidents = <<>>
                   /\ summary.avg_resp_s = None
                   /\ summary.p50_resp_s = None
                   /\ summary.p95_resp_s = None
                   /\ summary.p99_resp_s = None
                   /\ summary.mttr_min = None
                   /\ summary.mtbf_min = None

\* One minute in three is downtime: 66.666... is reported as 66.667.
C7_Witness ==
    /\ pc = "done"
    /\ summary.total_minutes = 3
    /\ summary.down_minutes = 1
    /\ summary.availability_pct = Rat(66667, 1000)

\* C8: mttr_min is the mean incident duration and mtbf_min is
\* (total_minutes - down_minutes) / number of incidents, each to the nearest
\* hundredth; both are null exactly when there is no incident.
C8_MttrMtbf ==
    pc = "done" =>
        LET n   == Len(summary.incidents)
            sum == SumDurations(summary.incidents, n)
            up  == summary.total_minutes - summary.down_minutes
        IN  /\ summary.mttr_min = None <=> n = 0
            /\ summary.mtbf_min = None <=> n = 0
            /\ n > 0 =>
                   /\ 100 % summary.mttr_min[2] = 0
                   /\ 100 % summary.mtbf_min[2] = 0
                   /\ 2 * Abs(Hundredths(summary.mttr_min) * n - 100 * sum) <= n
                   /\ 2 * Abs(Hundredths(summary.mtbf_min) * n - 100 * up) <= n

\* Two incidents of durations 1 and 2: MTTR 1.5, MTBF (5 - 3) / 2 = 1.
C8_Witness ==
    /\ pc = "done"
    /\ Durations(summary.incidents) = <<1, 2>>
    /\ summary.mttr_min = Rat(3, 2)
    /\ summary.mtbf_min = FromInt(1)

\* The j-th smallest of `values` (j = 1 for the minimum), found by counting.
OrderStat(j) ==
    LET I == 1 .. Len(values)
    IN  values[CHOOSE i \in I :
                   /\ Cardinality({h \in I : RLt(values[h], values[i])}) < j
                   /\ j <= Cardinality({h \in I : RLe(values[h], values[i])})]

\* |a - b| <= bound * 2^(3 - MantissaBits): a is b up to the rounding of a
\* few floating-point operations on values no larger than bound.
NearlyEqual(a, b, bound) ==
    LET diff == IF RLe(a, b) THEN RSub(b, a) ELSE RSub(a, b)
    IN  RLe(RMul(diff, FromInt(Pow2(MantissaBits - 3))), bound)

\* What percentile returns: null for an empty list, otherwise the minimum
\* for p <= 0, the maximum for p >= 100, and in between the linear
\* interpolation of the sorted values at rank k = (n - 1) * p / 100 between
\* positions floor(k) and ceil(k), as a float (up to rounding); for
\* [100, 200, 300, 400], p0 = 100, p50 = 250 and p100 = 400.
PercentileInterpolates ==
    LET n == Len(values)
    IN  /\ ret = None <=> n = 0
        /\ n > 0 =>
               /\ p <= 0 => ret = OrderStat(1)
               /\ p >= 100 => ret = OrderStat(n)
               /\ (0 < p /\ p < 100) =>
                      LET whole == ((n - 1) * p) \div 100
                          part  == ((n - 1) * p) % 100
                          lo    == OrderStat(whole + 1)
                          hi    == IF part = 0 THEN lo ELSE OrderStat(whole + 2)
                      IN  NearlyEqual(ret,
                                      RAdd(lo, RMul(RSub(hi, lo), Rat(part, 100))),
                                      OrderStat(n))
        /\ values = <<FromInt(100), FromInt(200), FromInt(300), FromInt(400)>> =>
               /\ p = 0 => ret = FromInt(100)
               /\ p = 50 => ret = FromInt(250)
               /\ p = 100 => ret = FromInt(400)

\* The result lies between the minimum and the maximum of the values.
PercentileWithinRange ==
    values # <<>> => RLe(OrderStat(1), ret) /\ RLe(ret, OrderStat(Len(values)))

\* C9: percentile(values, p) is null for an empty list and otherwise the
\* linear interpolation of the sorted values at rank k = (n - 1) * p / 100
\* between positions floor(k) and ceil(k), the minimum for p <= 0 and the
\* maximum for p >= 100; for [100, 200, 300, 400] it gives p0 = 100,
\* p50 = 250 and p100 = 400; and the result always lies between the minimum
\* and the maximum of the values.
C9_Percentile ==
    pc = "done" => PercentileInterpolates /\ PercentileWithinRange

\* The part of C9 that holds of percentile.
PercentileInterpolatesAlways == pc = "done" => PercentileInterpolates

\* The number of minutes from the first to the last key, inclusive.
Span == IF keys = <<>> THEN 0 ELSE keys[Len(keys)] - keys[1] + 1

\* C10: downsample_series emits at most ceil(span / bucket_min) rows, and
\* every row's success average lies in [0, 100] (the per-minute success
\* values given to it lie in [0, 100]).
C10_DownsampleBounds ==
    pc = "done" =>
        /\ Len(ret) * bucket_min <= Span + bucket_min - 1
        /\ \A n \in 1 .. Len(ret) :
               /\ RLe(FromInt(0), ret[n][2])
               /\ RLe(ret[n][2], FromInt(100))

\* Buckets two minutes wide, a gap that leaves a bucket empty, and a row
\* whose success average is strictly between 0 and 100.
C10_Witness ==
    /\ pc = "done"
    /\ bucket_min = 2
    /\ Len(ret) >= 2
    /\ (Len(ret) + 1) * bucket_min <= Span + bucket_min - 1
    /\ \E n \in 1 .. Len(ret) :
           RLt(FromInt(0), ret[n][2]) /\ RLt(ret[n][2], FromInt(100))

\* C11: downsample_series returns an empty list for empty input; otherwise
\* every bucket_start is the first key plus a whole multiple of bucket_min,
\* bucket starts are strictly increasing, and every emitted bucket holds at
\* least one key: a bucket into which no minute fell is dropped, also in the
\* middle of the series.
C11_DownsampleAlignment ==
    pc = "done" =>
        /\ keys = <<>> => ret = <<>>
        /\ \A n \in 1 .. Len(ret) :
               /\ ret[n][1] >= keys[1]
               /\ (ret[n][1] - keys[1]) % bucket_min = 0
               /\ n > 1 => ret[n - 1][1] < ret[n][1]
               /\ \E i \in 1 .. Len(keys) :
                      ret[n][1] <= keys[i] /\ keys[i] < ret[n][1] + bucket_min

\* Buckets two minutes wide; the second bucket holds no key and the rows
\* are those of the first and the third bucket.
C11_Witness ==
    /\ pc = "done"
    /\ bucket_min = 2
    /\ keys = <<0, 1, 4>>
    /\ Len(ret) = 2
    /\ ret[1][1] = 0
    /\ ret[2][1] = 4

\* The calendar days of the reporting window, which starts at minute 0 of
\* day 0 (day 1 of the month) and ends at its last minute.
WindowDays == [n \in 1 .. date(MaxMinute - 1) + 1 |-> n - 1]

DailyDates == [n \in 1 .. Len(summary.daily) |-> summary.daily[n][1]]

\* C12: the daily rollup returned by compute_summary has one row per
\* calendar day from day 1 of the month through the window end inclusive,
\* with no gaps, also when some of those days have no observed minutes.
C12_DailyRowPerCalendarDay ==
    pc = "done" => DailyDates = WindowDays

\* The Timestamps (field = "Timestamps") or Values of query `id` over the
\* first n pages, in page order.
RECURSIVE PagesConcat(_, _, _)
PagesConcat(id, field, n) ==
    IF n = 0 THEN <<>>
    ELSE PagesConcat(id, field, n - 1) \o pages[n][id][field]

\* C13: get_metric_data_paginated issues one GetMetricData request per
\* page, each with the NextToken of the previous response, stops at the
\* first response without a NextToken, and returns for each query Id the
\* concatenation, in page order, of the Timestamps and Values of every
\* page, the first included; a single-page response is returned with all
\* of its data points.
C13_PaginatedConcatenation ==
    pc = "done" =>
        /\ Len(requests) = Len(pages)
        /\ \A n \in 1 .. Len(requests) :
               requests[n] = IF n = 1 THEN None ELSE <<n>>
        /\ Len(out) = Len(QueryIds)
        /\ \A n \in 1 .. Len(out) :
               /\ out[n].Id = QueryIds[n]
               /\ out[n].Timestamps
                      = PagesConcat(QueryIds[n], "Timestamps", Len(pages))
               /\ out[n].Values
                      = PagesConcat(QueryIds[n], "Values", Len(pages))

\* The classified minutes whose timestamps fall in the bucket that starts
\* at b, ascending, and those of them that have a duration sample.
ClassifiedIn(b) ==
    SortedKeys({k \in ClassifiedKeySet : b <= k /\ k < b + DOWNSAMPLE_MIN})

WithLatencyIn(b) ==
    SortedKeys({k \in ClassifiedKeySet :
                   b <= k /\ k < b + DOWNSAMPLE_MIN /\ mp[k].dur # <<>>})

\* The success value of minute k (percent) and its latency (seconds).
MinuteSuccess(k) == Mean(IntsToFloats(mp[k].succ))

MinuteLatency(k) == RDivInt(Mean(IntsToFloats(mp[k].dur)), 1000)

\* C14: each chart row of a summary averages exactly the success values
\* and the latency values of the classified minutes whose timestamps fall
\* in [bucket_start, bucket_start + DOWNSAMPLE_MIN), for every observation
\* map, including maps where some minutes lack success samples or lack
\* duration samples.
C14_ChartRowsAverageTheirBucket ==
    pc = "done" =>
        \A n \in 1 .. Len(summary.chart_rows) :
            LET row == summary.chart_rows[n]
                ks  == ClassifiedIn(row[1])
                ls  == WithLatencyIn(row[1])
            IN  /\ ks # <<>>
                /\ row[2] = Round(Mean([j \in 1 .. Len(ks) |->
                                           MinuteSuccess(ks[j])]), 3)
                /\ row[3] = IF ls = <<>> THEN FromInt(0)
                            ELSE Round(Mean([j \in 1 .. Len(ls) |->
                                               MinuteLatency(ls[j])]), 3)

\* The positions in the classified series of the minutes counted as
\* downtime: those of a counted run from its FAIL_STREAK-th minute on.
CountedDownMinutes ==
    {n \in 1 .. Len(failures) :
        \E r \in CountedRuns : r[1] + FAIL_STREAK - 1 <= n /\ n <= r[2]}

RECURSIVE SumColumn(_, _, _)
SumColumn(rows, col, n) ==
    IF n = 0 THEN 0 ELSE rows[n][col] + SumColumn(rows, col, n - 1)

\* C15: each daily row (date, pct, minutes_total, minutes_down) has
\* minutes_down <= minutes_total and 0 <= pct <= 100; the minutes_total
\* values sum to total_minutes and the minutes_down values to down_minutes;
\* and minutes_down of a day counts the down minutes whose own timestamp
\* is on that day.
C15_DailyRowsAddUp ==
    pc = "done" =>
        LET daily == summary.daily
        IN  /\ \A n \in 1 .. Len(daily) :
                   /\ daily[n][4] <= daily[n][3]
                   /\ RLe(FromInt(0), daily[n][2])
                   /\ RLe(daily[n][2], FromInt(100))
                   /\ daily[n][4] =
                          Cardinality({j \in CountedDownMinutes :
                                          date(ClassifiedKey(j)) = daily[n][1]})
            /\ SumColumn(daily, 3, Len(daily)) = summary.total_minutes
            /\ SumColumn(daily, 4, Len(daily)) = summary.down_minutes

\* The incidents are in strictly ascending time order, each has
\* start <= end and a duration of at least one minute, and none overlaps
\* the next.
IncidentsOrdered ==
    LET incs == summary.incidents
    IN  \A n \in 1 .. Len(incs) :
            /\ incs[n][1] <= incs[n][2]
            /\ incs[n][3] >= 1
            /\ n > 1 => incs[n - 1][2] < incs[n][1]

\* Between two consecutive incidents lies an up minute of the classified
\* series.
IncidentsSeparated ==
    LET incs == summary.incidents
    IN  \A n \in 2 .. Len(incs) :
            \E k \in ClassifiedKeySet :
                /\ incs[n - 1][2] < k /\ k < incs[n][1]
                /\ \A j \in 1 .. Len(mp[k].succ) : mp[k].succ[j] >= 100

\* C16: the incident list of a summary is in strictly ascending time
\* order, every incident has start <= end and duration >= 1, incidents
\* never overlap, and two consecutive incidents are separated by at least
\* one up minute of the classified series.
C16_IncidentsOrderedAndSeparated ==
    pc = "done" => IncidentsOrdered /\ IncidentsSeparated

\* The part of C16 that holds of compute_summary.
IncidentsOrderedAlways == pc = "done" => IncidentsOrdered

\* The rows of the year rollup object of a bucket (none when it is absent).
YearFileOf(store) == IF year_key \in DOMAIN store THEN store[year_key] ELSE <<>>

\* The row of a year rollup file is that of the reporting month.
IsReportingMonth(r) == r.month_num.chars = IntChars(month_num)

IsOtherMonth(r) == ~IsReportingMonth(r)

TenTo(k) == IF k = 1 THEN 10 ELSE IF k = 2 THEN 100 ELSE 1000

\* The decimal text cs (digits, a point, one to three digits) reads as the
\* number x.
ReadsAs(cs, x) ==
    /\ \E i \in 1 .. Len(cs) : cs[i] = "."
    /\ LET dot == CHOOSE i \in 1 .. Len(cs) : cs[i] = "."
           k   == Len(cs) - dot
       IN  /\ dot > 1
           /\ k \in 1 .. 3
           /\ Rat(ParseDigits(SubSeq(cs, 1, dot - 1), 0) * TenTo(k)
                      + ParseDigits(SubSeq(cs, dot + 1, Len(cs)), 0),
                  TenTo(k)) = x

\* C17: when handler updates the year rollup, the rows of all months other
\* than the reporting month are written back exactly as they were, and
\* only the reporting month's row is replaced, with the first processed
\* client's availability and average response time; when no client
\* produced a result, no month row is changed.  The stable copy is the
\* rollup.
C17_YearRollupFrame ==
    [][pc = "year" =>
         LET before == YearFileOf(s3)
             after  == YearFileOf(s3')
             mine   == SelectSeq(after, IsReportingMonth)
         IN  /\ SelectSeq(after, IsOtherMonth) = SelectSeq(before, IsOtherMonth)
             /\ results = <<>> => after = before
             /\ results # <<>> =>
                    /\ Len(mine) = 1
                    /\ mine[1].client.chars = results[1].client
                    /\ ReadsAs(mine[1].availability_pct.chars,
                               results[1].availability_pct)
                    /\ IF results[1].avg_resp_s = None
                       THEN mine[1].response_time_sec.chars = <<>>
                       ELSE ReadsAs(mine[1].response_time_sec.chars,
                                    results[1].avg_resp_s)
             /\ year_key \in DOMAIN s3'
             /\ current_key \in DOMAIN s3'
             /\ s3'[current_key] = after]_vars

\* The rollup was updated for a month that an earlier run had reported, in
\* a year where that run had also reported an earlier and a later month;
\* the first client with canaries is the second of the configuration.
C17_Witness ==
    /\ pc = "return"
    /\ Len(CLIENTS.items) = 2
    /\ Len(results) = 1
    /\ results[1].client = CLIENTS.items[2].client
    /\ month_num = 2
    /\ Len(YearFileOf(s3)) = 3
    /\ YearFileOf(s3)[1].generated_at_utc.chars = <<"earlier">>
    /\ YearFileOf(s3)[2].generated_at_utc.chars = <<"now">>
    /\ YearFileOf(s3)[2].client.chars = results[1].client
    /\ YearFileOf(s3)[3].generated_at_utc.chars = <<"earlier">>

\* CLIENTS_JSON is not JSON, or is no object, or is an object without
\* members.
ConfigurationEmptyOrInvalid ==
    \/ ~CLIENTS_JSON.valid
    \/ CLIENTS_JSON.value.type # "object"
    \/ CLIENTS_JSON.value.items = <<>>

HasCanaries(item) == item.canaries # <<>>

\* The clients of the configuration that have a canary, in its order.
ClientsWithCanaries ==
    LET its == SelectSeq(CLIENTS_JSON.value.items, HasCanaries)
    IN  [n \in 1 .. Len(its) |-> its[n].client]

\* A successful run reports exactly the clients that have a canary, in
\* configuration order, in its results and in the month index.
SuccessfulRunReportsClients ==
    (pc = "done" /\ response.status = "ok") =>
        /\ [n \in 1 .. Len(results) |-> results[n].client] = ClientsWithCanaries
        /\ [n \in 1 .. Len(response.results) |-> response.results[n].client]
               = ClientsWithCanaries
        /\ [n \in 1 .. Len(index_items) |-> index_items[n][1]]
               = ClientsWithCanaries
        /\ index_items # <<>> =>
               s3[index_key] = render_month_index(index_items)

\* C18: when the client configuration is empty or invalid, handler returns
\* status "error" with reason "no_clients" without fetching metrics and
\* without writing any object; and in every successful run the month index
\* and the results list contain exactly the clients that have a non-empty
\* canary list, in configuration order.
C18_NoClientsAndReportedClients ==
    /\ (ConfigurationEmptyOrInvalid /\ pc # "handler") =>
           /\ pc = "done"
           /\ response.status = "error"
           /\ response.reason = "no_clients"
           /\ fetched = <<>>
           /\ puts = <<>>
    /\ SuccessfulRunReportsClients

\* The part of C18 that holds of handler: a CLIENTS_JSON that is not JSON,
\* or is null, an empty array or an empty object, is answered with the
\* error; no configuration that is empty or invalid leads to a fetch or a
\* write; and a successful run reports the clients that have a canary.
NoClientsAlways ==
    /\ ((~CLIENTS_JSON.valid \/ ~Truthy(CLIENTS_JSON.value)) /\ pc # "handler") =>
           /\ pc = "done"
           /\ response.status = "error"
           /\ response.reason = "no_clients"
    /\ ConfigurationEmptyOrInvalid => fetched = <<>> /\ puts = <<>>
    /\ SuccessfulRunReportsClients

====
